---- MODULE Spec2Model ----
(***************************************************************************)
(* Trace-context propagation over SNS/SQS message attributes.              *)
(*                                                                         *)
(*   opentelemetry-aws-messaging/src/sns.rs   MessageAttributesInjector    *)
(*   opentelemetry-aws-messaging/src/sqs.rs   MessageAttributesExtractor   *)
(*   src/consumer.rs                          the traced SQS consumer      *)
(*   src/main.rs                              SnsProducer / SqsConsumer    *)
(*   src/publisher.rs                         the traced SNS publisher     *)
(*                                                                         *)
(* The specifications of the module:                                       *)
(*   SpecCarrier    the two carriers applied to arbitrary attribute maps   *)
(*   SpecDecode     the two body decoders applied to arbitrary bodies      *)
(*   Spec           src/consumer.rs run against a queue                    *)
(*   SpecExample    src/main.rs run against a queue                        *)
(*   SpecConsumers  either of the two programs                             *)
(*   FairSpec       src/consumer.rs under fair polling and redelivery      *)
(*   SpecPublisher  src/publisher.rs reading lines and publishing them     *)
(***************************************************************************)
EXTENDS Integers, Sequences, FiniteSets, TLC

VARIABLES
    \* ---- carriers (SpecCarrier)
    attributes,     \* the HashMap<String, MessageAttributeValue> the carriers wrap
    before,         \* the map as it was before the last carrier call
    op,             \* the last carrier call: [name, key, value]
    prevop,         \* the carrier call before that
    ret,            \* what the last get / keys call returned
    \* ---- body decoding (SpecDecode)
    dbody,          \* the body handed to a decoder
    dwho,           \* which consumer decoded it: "consumer.rs" or "main.rs"
    dresult,        \* what the decoder made of it
    \* ---- the consuming programs and the queue (Spec, SpecExample, SpecConsumers)
    prog,           \* the program running: "consumer.rs" or "main.rs"
    env,            \* the environment variables that are set
    pc,             \* where the program's main task is
    queue,          \* the queue: message id -> [body, message_attributes]
    messages,       \* the messages of the received batch still to come
    msg,            \* the message of the batch being processed
    message_count,  \* consumer.rs: messages seen so far
    parent_cx,      \* consumer.rs: the context extracted for msg
    attached,       \* the stack of attached contexts (Context::attach guards)
    next_handle,    \* the receipt handle the queue hands out next
    log,            \* per delivery (receipt handle): what was done with it
    iter,           \* what the loop did since the last receive call returned
    exit,           \* how the process ended: [status, cause]
    handler,        \* consumer.rs: the Ctrl+C handler thread
    flushed,        \* tracer_provider.shutdown_with_timeout has run
    pub_i,          \* main.rs: the publish loop's variable i
    polls,          \* main.rs: receive_messages calls completed
    \* ---- the publishing program (SpecPublisher)
    message_id,     \* publisher.rs: the id the next message gets
    input,          \* publisher.rs: the line read, trimmed
    pub_cx,         \* publisher.rs: cx, the context holding the sns.publish span
    publog          \* the publish calls issued: [id, content, cx, attributes, result]

carrierVars == <<attributes, before, op, prevop, ret>>

decodeVars == <<dbody, dwho, dresult>>

loopVars ==
    <<prog, env, pc, queue, messages, msg, message_count, parent_cx, attached,
      next_handle, log, iter, exit, handler, flushed, pub_i, polls>>

publisherVars == <<message_id, input, pub_cx, publog>>

vars == <<carrierVars, decodeVars, loopVars, publisherVars>>

-----------------------------------------------------------------------------
(* Option::None, for every optional string of the model.                   *)
None == "<None>"

(* Option::None for an optional body or JSON string (strings that JSON     *)
(* parsing is applied to are records, see below).                          *)
NoText == [kind |-> "none"]

\* No decoder has run yet.
Pending == [tag |-> "pending"]

DecodeIdle ==
    /\ dbody = NoText
    /\ dwho = None
    /\ dresult = Pending

\* Option<String>::None for a receipt handle (handles are numbered from 1).
NoHandle == 0

\* No message is being processed.
NoMsg == [mid |-> 0, receipt_handle |-> NoHandle]

\* No context: Context::new(), with no valid span context in it.
RootCx == [valid |-> FALSE, trace |-> None]

\* The process is running.
Running == [status |-> 0 - 1, cause |-> None]

\* What the loop did since the last receive call returned with `outcome`.
NewIter(outcome) ==
    [outcome |-> outcome, extracts |-> 0, spans |-> 0, bodies |-> 0,
     deletes |-> 0, failed |-> 0, sleeps |-> 0]

\* publisher.rs is not running.
PublisherIdle ==
    /\ message_id = 0
    /\ input = None
    /\ pub_cx = RootCx
    /\ publog = <<>>

LoopIdle ==
    /\ PublisherIdle
    /\ prog = None
    /\ env = {}
    /\ pc = "idle"
    /\ queue = <<>>
    /\ messages = <<>>
    /\ msg = NoMsg
    /\ message_count = 0
    /\ parent_cx = RootCx
    /\ attached = <<>>
    /\ next_handle = 1
    /\ log = <<>>
    /\ iter = NewIter("not_yet")
    /\ exit = Running
    /\ handler = "unset"
    /\ flushed = FALSE
    /\ pub_i = 0
    /\ polls = 0

-----------------------------------------------------------------------------
(***************************************************************************)
(* Message attributes                                                      *)
(***************************************************************************)

\* Attribute names and string values the carriers are exercised with.
AttrNames == {"traceparent", "tracestate"}

StrVals == {"00-aaaa-bbbb-01", "junk"}

\* A MessageAttributeValue: a data type tag, an optional string value and an
\* optional binary value.  "Number" attributes carry their digits in
\* string_value, "Binary" attributes carry binary_value only.
StringAttr(v) == [data_type |-> "String", string_value |-> v, binary_value |-> None]

AttrValues ==
    {StringAttr(v) : v \in StrVals}
        \cup {[data_type |-> "Number", string_value |-> "7", binary_value |-> None],
              [data_type |-> "Binary", string_value |-> None, binary_value |-> "blob"]}

\* Every attribute map over AttrNames: a function from the names present.
AttrSets == UNION {[D -> AttrValues] : D \in SUBSET AttrNames}

\* HashMap::insert: the entry under key is added or replaced, the others stay.
Insert(map, key, value) ==
    [j \in DOMAIN map \cup {key} |-> IF j = key THEN value ELSE map[j]]

\* sns.rs MessageAttributesInjector::set, as a bug would have it: the value
\* lands in the map but is not string-typed.
SetAsBinary(map, key, value) ==
    Insert(map, key, [data_type |-> "Binary", string_value |-> None, binary_value |-> value])

\* sns.rs MessageAttributesInjector::set, as a bug would have it: an entry
\* that exists is kept (or_insert instead of insert).
SetKeepsFirst(map, key, value) ==
    IF key \in DOMAIN map THEN map ELSE Insert(map, key, StringAttr(value))

\* sns.rs MessageAttributesInjector::set, as a bug would have it: the map is
\* replaced by one that holds the new entry only.
SetReplacesMap(map, key, value) == [j \in {key} |-> StringAttr(value)]

\* sns.rs MessageAttributesInjector::set
InjectorSet(map, key, value) == Insert(map, key, StringAttr(value))

\* sqs.rs MessageAttributesExtractor::get, as a bug would have it: a missing
\* entry reads as the empty string (unwrap_or_default).
GetDefaultsToEmpty(map, key) ==
    IF key \in DOMAIN map /\ map[key].string_value # None
    THEN map[key].string_value
    ELSE ""

\* sqs.rs MessageAttributesExtractor::get: the entry's string_value, if the
\* entry exists and has one.
ExtractorGet(map, key) ==
    IF key \in DOMAIN map THEN map[key].string_value ELSE None

\* All orders a Vec of the elements of S can come in (HashMap iteration order
\* is unspecified).
Orders(S) ==
    {s \in [1..Cardinality(S) -> S] : \A i, j \in 1..Cardinality(S) : i # j => s[i] # s[j]}

\* sqs.rs MessageAttributesExtractor::keys, as a bug would have it: only the
\* names of the entries that have a string value are listed.
KeysOfStringValues(map) ==
    Orders({k \in DOMAIN map : map[k].string_value # None})

\* sqs.rs MessageAttributesExtractor::keys: the keys of the map, in some order.
ExtractorKeys(map) == Orders(DOMAIN map)

NoOp == [name |-> "none", key |-> None, value |-> None]

\* injector.set(key, value) on the map
CarrierSet ==
    \E k \in AttrNames, v \in StrVals :
        /\ attributes' = InjectorSet(attributes, k, v)
        /\ before' = attributes
        /\ prevop' = op
        /\ op' = [name |-> "set", key |-> k, value |-> v]
        /\ ret' = None
        /\ UNCHANGED <<decodeVars, loopVars, publisherVars>>

\* extractor.get(key) on the map
CarrierGet ==
    \E k \in AttrNames :
        /\ ret' = ExtractorGet(attributes, k)
        /\ before' = attributes
        /\ prevop' = op
        /\ op' = [name |-> "get", key |-> k, value |-> None]
        /\ UNCHANGED attributes
        /\ UNCHANGED <<decodeVars, loopVars, publisherVars>>

\* extractor.keys() on the map
CarrierKeys ==
    \E ks \in ExtractorKeys(attributes) :
        /\ ret' = ks
        /\ before' = attributes
        /\ prevop' = op
        /\ op' = [name |-> "keys", key |-> None, value |-> None]
        /\ UNCHANGED attributes
        /\ UNCHANGED <<decodeVars, loopVars, publisherVars>>

InitCarrier ==
    /\ attributes \in AttrSets
    /\ before = attributes
    /\ op = NoOp
    /\ prevop = NoOp
    /\ ret = None
    /\ DecodeIdle
    /\ LoopIdle

NextCarrier ==
    \/ CarrierSet
    \/ CarrierGet
    \/ CarrierKeys

SpecCarrier == InitCarrier /\ [][NextCarrier]_vars

-----------------------------------------------------------------------------
(***************************************************************************)
(* Message bodies and serde_json                                           *)
(*                                                                         *)
(* A string is modelled by what a JSON parser makes of it: either it is    *)
(* not a JSON document ("garbage"), or it spells one ("doc").  A JSON      *)
(* value is a number, a string (whose content is again a string, so again  *)
(* garbage or a document), null, an array or an object.                    *)
(***************************************************************************)

\* Integers are written as two 16-bit halves, hi * 2^16 + lo, so that the
\* whole u32 range of Message.id and its two neighbours can be told apart.
\* The largest half:
HalfMax == 65535

Garbage(name) == [kind |-> "garbage", name |-> name]

Doc(value) == [kind |-> "doc", doc |-> value]

\* A JSON integer; lo is in 0..HalfMax, hi is negative for a negative number.
JNum(hi, lo) == [t |-> "num", hi |-> hi, lo |-> lo]

\* A u32 value.
U32(hi, lo) == [hi |-> hi, lo |-> lo]

JStr(text) == [t |-> "str", s |-> text]

JNull == [t |-> "null"]

JArr(elems) == [t |-> "arr", elems |-> elems]

JObj(fields) == [t |-> "obj", fields |-> fields]

\* A field left out of an object.
Absent == [t |-> "absent"]

\* The object with the four fields the decoders look at, each present or not.
Object(id, content, timestamp, message) ==
    LET pick == [n \in {"id", "content", "timestamp", "Message"} |->
                    CASE n = "id" -> id
                      [] n = "content" -> content
                      [] n = "timestamp" -> timestamp
                      [] OTHER -> message]
    IN  JObj([n \in {m \in DOMAIN pick : pick[m] # Absent} |-> pick[n]])

\* The Message struct: id: u32, content: String, timestamp: String.
Message(id, content, timestamp) ==
    [id |-> id, content |-> content, timestamp |-> timestamp]

Ok(value) == [ok |-> TRUE, value |-> value]

Err == [ok |-> FALSE]

\* serde_json::to_string(&Message): the object with the three fields.
SerializeMessage(message) ==
    Doc(Object(JNum(message.id.hi, message.id.lo), JStr(message.content), JStr(message.timestamp), Absent))

\* serde_json::from_str::<serde_json::Value>: any JSON document parses.
FromStrValue(text) ==
    IF text.kind = "doc" THEN Ok(text.doc) ELSE Err

\* Deserialising one field of Message from a JSON value: a u32 takes an
\* integer of 0..2^32-1, a String takes a JSON string, nothing else.
IsU32(v) == v.t = "num" /\ v.hi >= 0 /\ v.hi <= HalfMax /\ v.lo >= 0 /\ v.lo <= HalfMax

AsU32(v) == U32(v.hi, v.lo)

IsString(v) == v.t = "str"

\* serde_json::from_str::<Message>: the derived Deserialize takes an object
\* with the three fields well-typed (other fields are ignored) or an array of
\* exactly the three values in declaration order.
FromStrMessage(text) ==
    IF text.kind # "doc" THEN Err
    ELSE LET v == text.doc IN
         CASE v.t = "obj" ->
                IF /\ {"id", "content", "timestamp"} \subseteq DOMAIN v.fields
                   /\ IsU32(v.fields["id"])
                   /\ IsString(v.fields["content"])
                   /\ IsString(v.fields["timestamp"])
                THEN Ok(Message(AsU32(v.fields["id"]), v.fields["content"].s,
                                v.fields["timestamp"].s))
                ELSE Err
           [] v.t = "arr" ->
                IF /\ Len(v.elems) = 3
                   /\ IsU32(v.elems[1])
                   /\ IsString(v.elems[2])
                   /\ IsString(v.elems[3])
                THEN Ok(Message(AsU32(v.elems[1]), v.elems[2].s, v.elems[3].s))
                ELSE Err
           [] OTHER -> Err

\* sns_envelope.get("Message").and_then(|m| m.as_str()): the string under
\* "Message" if the value is an object that has one.
GetMessageStr(value) ==
    IF /\ value.t = "obj"
       /\ "Message" \in DOMAIN value.fields
       /\ value.fields["Message"].t = "str"
    THEN value.fields["Message"].s
    ELSE NoText

\* What handling a body shows: the decoded payload, a raw string, or nothing.
Payload(message) == [tag |-> "payload", message |-> message]

Raw(text) == [tag |-> "raw", text |-> text]

Nothing == [tag |-> "nothing"]

\* consumer.rs, body handling: the body is parsed as a Message, and shown raw
\* when that fails.
ConsumerBody(body) ==
    IF body = NoText THEN Nothing
    ELSE LET parsed == FromStrMessage(body) IN
         IF parsed.ok THEN Payload(parsed.value) ELSE Raw(body)

\* main.rs SqsConsumer::receive_messages, as a bug would have it: the raw
\* fallback shows the whole body instead of the Message string.
SqsConsumerBodyRawWhole(body) ==
    IF body = NoText THEN Nothing
    ELSE LET sns_envelope == FromStrValue(body) IN
         IF sns_envelope.ok
         THEN LET message_str == GetMessageStr(sns_envelope.value) IN
              IF message_str # NoText
              THEN LET parsed == FromStrMessage(message_str) IN
                   IF parsed.ok THEN Payload(parsed.value) ELSE Raw(body)
              ELSE Nothing
         ELSE Raw(body)

\* main.rs SqsConsumer::receive_messages, body handling: the body is parsed
\* as JSON; with a string "Message" field that string is parsed as a Message
\* and shown raw when that fails; JSON without such a field shows nothing;
\* a body that is not JSON is shown raw.
SqsConsumerBody(body) ==
    IF body = NoText THEN Nothing
    ELSE LET sns_envelope == FromStrValue(body) IN
         IF sns_envelope.ok
         THEN LET message_str == GetMessageStr(sns_envelope.value) IN
              IF message_str # NoText
              THEN LET parsed == FromStrMessage(message_str) IN
                   IF parsed.ok THEN Payload(parsed.value) ELSE Raw(message_str)
              ELSE Nothing
         ELSE Raw(body)

\* ---- the bodies the decoders are exercised with

Hello == Garbage("hello")

Timestamp == Garbage("2024-01-01T00:00:00Z")

IdVals == {JNum(0, 1), JNum(HalfMax, HalfMax), JNum(0 - 1, HalfMax),
           JNum(HalfMax + 1, 0), JStr(Hello), Absent}

ContentVals == {JStr(Hello), JNum(0, 5), Absent}

TimestampVals == {JStr(Timestamp), JNull, Absent}

Objects(messageVals) ==
    {Object(i, c, t, m) : i \in IdVals, c \in ContentVals, t \in TimestampVals,
                          m \in messageVals}

Arrays ==
    {JArr(<<JNum(0, 1), JStr(Hello), JStr(Timestamp)>>),
     JArr(<<JNum(0, 1), JStr(Hello)>>),
     JArr(<<JNum(0, 1), JStr(Hello), JStr(Timestamp), JNull>>),
     JArr(<<JStr(Hello), JNum(0, 1), JStr(Timestamp)>>)}

\* Strings that can sit in a "Message" field: no further nesting inside.
InnerTexts ==
    {Hello} \cup {Doc(v) : v \in Objects({Absent}) \cup Arrays \cup {JNum(0, 1), JNull}}

\* Every body: the inner strings, and objects with a "Message" field that is
\* a string (an envelope), a number, or missing.
Bodies ==
    InnerTexts
        \cup {Doc(v) : v \in Objects({JNum(0, 3)} \cup {JStr(t) : t \in InnerTexts})}

\* consumer.rs handles the body
DecodeConsumer ==
    /\ dresult = Pending
    /\ dresult' = ConsumerBody(dbody)
    /\ dwho' = "consumer.rs"
    /\ UNCHANGED dbody
    /\ UNCHANGED <<carrierVars, loopVars, publisherVars>>

\* main.rs SqsConsumer handles the body
DecodeSqsConsumer ==
    /\ dresult = Pending
    /\ dresult' = SqsConsumerBody(dbody)
    /\ dwho' = "main.rs"
    /\ UNCHANGED dbody
    /\ UNCHANGED <<carrierVars, loopVars, publisherVars>>

CarrierIdle ==
    /\ attributes = <<>>
    /\ before = <<>>
    /\ op = NoOp
    /\ prevop = NoOp
    /\ ret = None

InitDecode ==
    /\ dbody \in Bodies
    /\ dwho = None
    /\ dresult = Pending
    /\ CarrierIdle
    /\ LoopIdle

NextDecode ==
    \/ DecodeConsumer
    \/ DecodeSqsConsumer

SpecDecode == InitDecode /\ [][NextDecode]_vars

-----------------------------------------------------------------------------
(***************************************************************************)
(* The queue (the SQS side of the transport)                               *)
(***************************************************************************)

\* Messages in the queue when the program starts, at most.
MaxQueued == 2

\* Receipt handles the queue hands out in a run, at most: every delivery of a
\* message (first or repeated) comes with a fresh handle.
MaxDeliveries == 3

\* ReceiveMessage's max_number_of_messages in consumer.rs and main.rs.
MaxNumberOfMessages == 10

\* Option<HashMap<..>> of a received message.
NoAttributes == [some |-> FALSE, map |-> <<>>]

SomeAttributes(map) == [some |-> TRUE, map |-> map]

\* The payload of the end-to-end scenario.
HelloMessage == Message(U32(0, 1), Hello, Timestamp)

\* An SNS notification envelope around a published message body.
Envelope(text) == Doc(Object(Absent, Absent, Absent, JStr(text)))

\* The messages the queue is filled with: a directly delivered payload with
\* trace context, an enveloped payload without attributes, a body that is not
\* JSON with a malformed traceparent, a JSON body that is neither payload nor
\* envelope with a binary traceparent.
MsgKinds ==
    {[body |-> SerializeMessage(HelloMessage),
      message_attributes |->
          SomeAttributes([k \in {"traceparent"} |-> StringAttr("00-aaaa-bbbb-01")])],
     [body |-> Envelope(SerializeMessage(HelloMessage)),
      message_attributes |-> NoAttributes],
     [body |-> Hello,
      message_attributes |-> SomeAttributes([k \in {"traceparent"} |-> StringAttr("junk")])],
     [body |-> Doc(JNull),
      message_attributes |->
          SomeAttributes([k \in {"traceparent"} |->
              [data_type |-> "Binary", string_value |-> None, binary_value |-> "blob"]])]}

\* Messages in the queue when main.rs starts, at most (it publishes
\* PublishCount more itself).
MaxQueuedExample == 1

\* The queues of at most max messages.
Queues(max) == UNION {[1..n -> MsgKinds] : n \in 0..max}

Min(a, b) == IF a < b THEN a ELSE b

\* The batches a receive call can return: any messages of the queue, in any
\* order, at most max_number_of_messages of them, each with a fresh receipt
\* handle.
Batches(q, first_handle, max) ==
    LET room == Min(max, Min(Cardinality(DOMAIN q), MaxDeliveries + 1 - first_handle))
        picks == UNION {{s \in [1..n -> DOMAIN q] :
                            \A a, b \in 1..n : a # b => s[a] # s[b]} : n \in 1..room}
    IN  {[k \in DOMAIN s |->
            [mid |-> s[k],
             receipt_handle |-> first_handle + k - 1,
             body |-> q[s[k]].body,
             message_attributes |-> q[s[k]].message_attributes]] : s \in picks}

\* DeleteMessage succeeded, as a bug would have it: the messages received
\* before this one are gone with it.
RemoveAlsoOlder(q, mid) == [m \in {o \in DOMAIN q : o > mid} |-> q[m]]

\* DeleteMessage succeeded: the message is gone from the queue.
Remove(q, mid) == [m \in DOMAIN q \ {mid} |-> q[m]]

\* A message arrives in the queue under a new id.
Enqueue(q, kind) ==
    LET mid == IF DOMAIN q = {} THEN 1
               ELSE 1 + CHOOSE m \in DOMAIN q : \A o \in DOMAIN q : o <= m
    IN  [m \in DOMAIN q \cup {mid} |-> IF m = mid THEN kind ELSE q[m]]

\* What the log holds for a delivery that was just received.
Received(m) ==
    [mid |-> m.mid, message_attributes |-> m.message_attributes,
     extracted |-> FALSE, parent |-> None, span |-> FALSE, shown |-> Pending,
     deletes |-> <<>>, acked |-> None, done |-> FALSE]

LogBatch(l, batch) ==
    [h \in DOMAIN l \cup {batch[k].receipt_handle : k \in DOMAIN batch} |->
        IF h \in DOMAIN l THEN l[h]
        ELSE Received(batch[CHOOSE k \in DOMAIN batch : batch[k].receipt_handle = h])]

-----------------------------------------------------------------------------
(***************************************************************************)
(* src/consumer.rs: the traced consumer                                    *)
(***************************************************************************)

\* std::env::var(name), as a bug would have it: a missing variable reads as
\* the empty string (unwrap_or_default) and the program goes on.
EnvVarOrDefault(e, name) == TRUE

\* std::env::var(name).context(...)?: is the variable set (otherwise main
\* returns the error).
EnvVar(e, name) == name \in e

Exited(status, cause) == [status |-> status, cause |-> cause]

\* The propagator's extract over the carrier: the parent context is valid if
\* the carrier's get("traceparent") returns a well-formed value, and is the
\* root context otherwise.
WellFormed == {"00-aaaa-bbbb-01"}

\* The propagator's extract, as a bug would have it: whatever string the
\* carrier returns for "traceparent" becomes the parent.
ExtractTakesAnyValue(map) ==
    LET tp == ExtractorGet(map, "traceparent") IN
    IF tp # None THEN [valid |-> TRUE, trace |-> tp] ELSE RootCx

PropagatorExtract(map) ==
    LET tp == ExtractorGet(map, "traceparent") IN
    IF tp \in WellFormed THEN [valid |-> TRUE, trace |-> tp] ELSE RootCx

\* msg.message_attributes().unwrap_or(&empty)
UnwrapOrEmpty(message_attributes) ==
    IF message_attributes.some THEN message_attributes.map ELSE <<>>

\* Where consumer.rs goes when the receive call has returned, as a bug would
\* have it: an empty batch is treated like an error.
ConsumerAfterReceiveSleepsWhenIdle(outcome) ==
    IF outcome = "batch" THEN "extract" ELSE "backoff"

\* Where consumer.rs goes when the receive call has returned, as a bug would
\* have it: an error polls again at once.
ConsumerAfterReceiveNoBackoff(outcome) ==
    IF outcome = "batch" THEN "extract" ELSE "receive"

\* Where consumer.rs goes when the receive call has returned: to the first
\* message of a batch, to the sleep after an error, to the next receive when
\* there is no batch or an empty one.
ConsumerAfterReceive(outcome) ==
    CASE outcome = "error" -> "backoff"
      [] outcome = "batch" -> "extract"
      [] OTHER -> "receive"

\* cx.attach(): the context becomes the current one, on top of the others.
Attach(stack, cx) == Append(stack, cx)

\* Dropping the guard at the end of the loop body, as a bug would have it:
\* the context stays attached.
DropGuardLeaks(stack) == stack

\* Dropping the guard at the end of the loop body: the context attached last
\* is detached.
DropGuard(stack) == SubSeq(stack, 1, Len(stack) - 1)

\* The handle a message is deleted with, as a bug would have it: the handle
\* of the delivery before it.
DeleteHandleStale(m) ==
    IF m.receipt_handle > 1 THEN m.receipt_handle - 1 ELSE m.receipt_handle

\* The handle a message is deleted with: msg.receipt_handle().
DeleteHandle(m) == m.receipt_handle

\* Where consumer.rs goes when the delete call has returned, as a bug would
\* have it: a failed delete sleeps like a failed receive.
ConsumerAfterDeleteBacksOff(ok, rest) ==
    IF ~ok THEN "backoff" ELSE IF rest = <<>> THEN "receive" ELSE "extract"

\* Where consumer.rs goes when the delete call has returned, as a bug would
\* have it: a failed delete breaks out of the batch.
ConsumerAfterDeleteBreaksBatch(ok, rest) ==
    IF ~ok \/ rest = <<>> THEN "receive" ELSE "extract"

\* Where consumer.rs goes when the delete call has returned: success or
\* failure, to the next message of the batch, or to the next receive.
ConsumerAfterDelete(ok, rest) ==
    IF rest = <<>> THEN "receive" ELSE "extract"

\* consumer.rs main, up to the loop: the queue URL is read from the
\* environment (missing: the error is returned from main), the Ctrl+C handler
\* is installed.
ConsumerStart ==
    /\ prog = "consumer.rs"
    /\ pc = "start"
    /\ IF EnvVar(env, "SQS_QUEUE_URL")
       THEN /\ pc' = "receive"
            /\ handler' = "armed"
            /\ message_count' = 0
            /\ exit' = exit
       ELSE /\ pc' = "exited"
            /\ exit' = Exited(1, "config")
            /\ UNCHANGED <<handler, message_count>>
    /\ UNCHANGED <<prog, env, queue, messages, msg, parent_cx, attached, next_handle,
                   log, iter, flushed, pub_i, polls>>
    /\ UNCHANGED <<carrierVars, decodeVars, publisherVars>>

\* consumer.rs: client.receive_message()...send().await and the match on it.
ConsumerReceive ==
    /\ prog = "consumer.rs"
    /\ pc = "receive"
    /\ \/ \E outcome \in {"error", "no_batch", "empty"} :
            /\ iter' = NewIter(outcome)
            /\ pc' = ConsumerAfterReceive(outcome)
            /\ UNCHANGED <<messages, msg, next_handle, log>>
       \/ \E batch \in Batches(queue, next_handle, MaxNumberOfMessages) :
            /\ iter' = NewIter("batch")
            /\ pc' = ConsumerAfterReceive("batch")
            /\ msg' = Head(batch)
            /\ messages' = Tail(batch)
            /\ next_handle' = next_handle + Len(batch)
            /\ log' = LogBatch(log, batch)
    /\ UNCHANGED <<prog, env, queue, message_count, parent_cx, attached, exit,
                   handler, flushed, pub_i, polls>>
    /\ UNCHANGED <<carrierVars, decodeVars, publisherVars>>

\* consumer.rs: sleep(Duration::from_secs(5)) after a failed receive is over.
ConsumerBackoff ==
    /\ prog = "consumer.rs"
    /\ pc = "backoff"
    /\ pc' = "receive"
    /\ iter' = [iter EXCEPT !.sleeps = @ + 1]
    /\ UNCHANGED <<prog, env, queue, messages, msg, message_count, parent_cx, attached,
                   next_handle, log, exit, handler, flushed, pub_i, polls>>
    /\ UNCHANGED <<carrierVars, decodeVars, publisherVars>>

\* consumer.rs: the head of the loop body: the message is counted and its
\* parent context extracted from its attributes.
ConsumerExtract ==
    /\ prog = "consumer.rs"
    /\ pc = "extract"
    /\ message_count' = message_count + 1
    /\ parent_cx' = PropagatorExtract(UnwrapOrEmpty(msg.message_attributes))
    /\ log' = [log EXCEPT ![msg.receipt_handle].parent = parent_cx'.trace,
                          ![msg.receipt_handle].extracted = TRUE]
    /\ iter' = [iter EXCEPT !.extracts = @ + 1]
    /\ pc' = "span"
    /\ UNCHANGED <<prog, env, queue, messages, msg, attached, next_handle, exit,
                   handler, flushed, pub_i, polls>>
    /\ UNCHANGED <<carrierVars, decodeVars, publisherVars>>

\* consumer.rs: the consumer span is started under the parent context and
\* attached.
ConsumerStartSpan ==
    /\ prog = "consumer.rs"
    /\ pc = "span"
    /\ attached' = Attach(attached, [span |-> msg.receipt_handle, parent |-> parent_cx])
    /\ log' = [log EXCEPT ![msg.receipt_handle].span = TRUE]
    /\ iter' = [iter EXCEPT !.spans = @ + 1]
    /\ pc' = "body"
    /\ UNCHANGED <<prog, env, queue, messages, msg, message_count, parent_cx,
                   next_handle, exit, handler, flushed, pub_i, polls>>
    /\ UNCHANGED <<carrierVars, decodeVars, publisherVars>>

\* consumer.rs: the body is decoded and shown.
ConsumerHandleBody ==
    /\ prog = "consumer.rs"
    /\ pc = "body"
    /\ log' = [log EXCEPT ![msg.receipt_handle].shown = ConsumerBody(msg.body)]
    /\ iter' = [iter EXCEPT !.bodies = @ + 1]
    /\ pc' = "delete"
    /\ UNCHANGED <<prog, env, queue, messages, msg, message_count, parent_cx, attached,
                   next_handle, exit, handler, flushed, pub_i, polls>>
    /\ UNCHANGED <<carrierVars, decodeVars, publisherVars>>

\* The end of the loop body for msg: the guard is dropped, the for loop takes
\* the next message of the batch or the outer loop receives again.
EndOfBody(next_pc) ==
    /\ attached' = DropGuard(attached)
    /\ pc' = next_pc
    /\ IF messages = <<>>
       THEN msg' = NoMsg /\ messages' = messages
       ELSE msg' = Head(messages) /\ messages' = Tail(messages)

\* consumer.rs: client.delete_message()...send() is issued with the message's
\* receipt handle, if it has one.
ConsumerDeleteSend ==
    /\ prog = "consumer.rs"
    /\ pc = "delete"
    /\ LET h == DeleteHandle(msg) IN
       IF h # NoHandle
       THEN /\ log' = [log EXCEPT ![msg.receipt_handle].deletes = Append(@, h)]
            /\ iter' = [iter EXCEPT !.deletes = @ + 1]
            /\ pc' = "deleting"
            /\ UNCHANGED <<attached, msg, messages>>
       ELSE /\ log' = [log EXCEPT ![msg.receipt_handle].done = TRUE]
            /\ iter' = iter
            /\ EndOfBody(ConsumerAfterDelete(TRUE, messages))
    /\ UNCHANGED <<prog, env, queue, message_count, parent_cx, next_handle, exit,
                   handler, flushed, pub_i, polls>>
    /\ UNCHANGED <<carrierVars, decodeVars, publisherVars>>

\* consumer.rs: the delete call has returned; a failure is logged, a success
\* has removed the message; either way the loop body ends.
ConsumerDeleteDone ==
    /\ prog = "consumer.rs"
    /\ pc = "deleting"
    /\ \E ok \in BOOLEAN :
        /\ queue' = IF ok THEN Remove(queue, msg.mid) ELSE queue
        /\ log' = [log EXCEPT ![msg.receipt_handle].acked = IF ok THEN "ok" ELSE "failed",
                              ![msg.receipt_handle].done = TRUE]
        /\ iter' = [iter EXCEPT !.failed = IF ok THEN @ ELSE @ + 1]
        /\ EndOfBody(ConsumerAfterDelete(ok, messages))
    /\ UNCHANGED <<prog, env, message_count, parent_cx, next_handle, exit,
                   handler, flushed, pub_i, polls>>
    /\ UNCHANGED <<carrierVars, decodeVars, publisherVars>>

\* consumer.rs, the Ctrl+C handler: the signal has arrived, the handler thread
\* shuts the tracer provider down (which flushes the spans).  If the shutdown
\* fails, `expect` panics in the handler thread and process::exit is not
\* reached.
CtrlCShutdown ==
    /\ prog = "consumer.rs"
    /\ handler = "armed"
    /\ pc # "exited"
    /\ \E ok \in BOOLEAN :
        /\ handler' = IF ok THEN "shutdown" ELSE "panicked"
        /\ flushed' = ok
    /\ UNCHANGED <<prog, env, pc, queue, messages, msg, message_count, parent_cx,
                   attached, next_handle, log, iter, exit, pub_i, polls>>
    /\ UNCHANGED <<carrierVars, decodeVars, publisherVars>>

\* consumer.rs, the Ctrl+C handler: process::exit(0).  A delete request that
\* is in flight has reached the queue or has not.
CtrlCExit ==
    /\ prog = "consumer.rs"
    /\ handler = "shutdown"
    /\ pc # "exited"
    /\ pc' = "exited"
    /\ exit' = Exited(0, "ctrlc")
    /\ handler' = "exited"
    /\ IF pc = "deleting"
       THEN /\ \E took \in BOOLEAN :
                 queue' = IF took THEN Remove(queue, msg.mid) ELSE queue
            /\ log' = [log EXCEPT ![msg.receipt_handle].acked = "abandoned"]
       ELSE UNCHANGED <<queue, log>>
    /\ UNCHANGED <<prog, env, messages, msg, message_count, parent_cx, attached,
                   next_handle, iter, flushed, pub_i, polls>>
    /\ UNCHANGED <<carrierVars, decodeVars, publisherVars>>

InitLoop(program, queues) ==
    /\ prog = program
    /\ env \in {{"SQS_QUEUE_URL", "SNS_TOPIC_ARN"}, {"SNS_TOPIC_ARN"}}
    /\ pc = "start"
    /\ queue \in queues
    /\ messages = <<>>
    /\ msg = NoMsg
    /\ message_count = 0
    /\ parent_cx = RootCx
    /\ attached = <<>>
    /\ next_handle = 1
    /\ log = <<>>
    /\ iter = NewIter("not_yet")
    /\ exit = Running
    /\ handler = "unset"
    /\ flushed = FALSE
    /\ pub_i = 0
    /\ polls = 0
    /\ CarrierIdle
    /\ DecodeIdle
    /\ PublisherIdle

Init == InitLoop("consumer.rs", Queues(MaxQueued))

Next ==
    \/ ConsumerStart
    \/ ConsumerReceive
    \/ ConsumerBackoff
    \/ ConsumerExtract
    \/ ConsumerStartSpan
    \/ ConsumerHandleBody
    \/ ConsumerDeleteSend
    \/ ConsumerDeleteDone
    \/ CtrlCShutdown
    \/ CtrlCExit

Spec == Init /\ [][Next]_vars

\* The steps of the main task of consumer.rs (the loop), which the tokio
\* runtime keeps running.
MainTask ==
    \/ ConsumerReceive
    \/ ConsumerBackoff
    \/ ConsumerExtract
    \/ ConsumerStartSpan
    \/ ConsumerHandleBody
    \/ ConsumerDeleteSend
    \/ ConsumerDeleteDone

\* A receive call of consumer.rs that delivers message mid (again).
ReceiveDelivering(mid) ==
    /\ ConsumerReceive
    /\ iter'.outcome = "batch"
    /\ \/ msg'.mid = mid
       \/ \E k \in DOMAIN messages' : messages'[k].mid = mid

\* consumer.rs under fair polling and at-least-once redelivery: the loop keeps
\* taking steps, and a message that can be delivered again and again is
\* eventually delivered.
FairSpec ==
    /\ Spec
    /\ WF_vars(MainTask)
    /\ \A mid \in 1..MaxQueued : SF_vars(ReceiveDelivering(mid))

-----------------------------------------------------------------------------
(***************************************************************************)
(* src/main.rs: SnsProducer, SqsConsumer and the example's main            *)
(***************************************************************************)

\* main.rs main: `for i in 1..=3` publishes three messages.
PublishCount == 3

\* main.rs main: `for _ in 0..3` polls three times.
PollCount == 3

\* main.rs main: the message of round n of the publish loop.
TestMessage(n) ==
    Message(U32(0, n), Garbage("Test message number " \o ToString(n)), Timestamp)

\* Where SqsConsumer::receive_messages goes when the receive call has
\* returned: a failure is returned with `?` and ends main, no batch or an
\* empty one returns Ok(()), a batch is processed.
ExampleAfterReceive(outcome) ==
    CASE outcome = "error" -> "exited"
      [] outcome = "batch" -> "body"
      [] OTHER -> "sleep"

\* Where SqsConsumer::receive_messages goes when the delete call has
\* returned: a failure is returned with `?` and ends main, a success goes on
\* with the next message of the batch or returns Ok(()).
ExampleAfterDelete(ok, rest) ==
    IF ~ok THEN "exited" ELSE IF rest = <<>> THEN "sleep" ELSE "body"

\* main.rs main, up to the publish loop: both environment variables are read
\* (missing: the error is returned from main).
ExampleStart ==
    /\ prog = "main.rs"
    /\ pc = "start"
    /\ IF EnvVar(env, "SNS_TOPIC_ARN") /\ EnvVar(env, "SQS_QUEUE_URL")
       THEN /\ pc' = "publish"
            /\ pub_i' = 1
            /\ exit' = exit
       ELSE /\ pc' = "exited"
            /\ exit' = Exited(1, "config")
            /\ pub_i' = pub_i
    /\ UNCHANGED <<prog, env, queue, messages, msg, message_count, parent_cx, attached,
                   next_handle, log, iter, handler, flushed, polls>>
    /\ UNCHANGED <<carrierVars, decodeVars, publisherVars>>

\* main.rs: one round of the publish loop: SnsProducer::publish_message (a
\* failure is returned with `?` and ends main) and the sleep after it.  A
\* published message reaches the queue, wrapped in a notification envelope,
\* if the queue is subscribed to the topic.
ExamplePublish ==
    /\ prog = "main.rs"
    /\ pc = "publish"
    /\ \/ \E subscribed \in BOOLEAN :
            /\ queue' = IF subscribed
                        THEN Enqueue(queue,
                                 [body |-> Envelope(SerializeMessage(TestMessage(pub_i))),
                                  message_attributes |-> NoAttributes])
                        ELSE queue
            /\ pub_i' = pub_i + 1
            /\ pc' = IF pub_i = PublishCount THEN "receive" ELSE "publish"
            /\ exit' = exit
       \/ /\ pc' = "exited"
          /\ exit' = Exited(1, "publish")
          /\ UNCHANGED <<queue, pub_i>>
    /\ UNCHANGED <<prog, env, messages, msg, message_count, parent_cx, attached,
                   next_handle, log, iter, handler, flushed, polls>>
    /\ UNCHANGED <<carrierVars, decodeVars, publisherVars>>

\* main.rs SqsConsumer::receive_messages: the receive call and what follows
\* from its result.
ExampleReceive ==
    /\ prog = "main.rs"
    /\ pc = "receive"
    /\ \/ \E outcome \in {"error", "no_batch", "empty"} :
            /\ iter' = NewIter(outcome)
            /\ pc' = ExampleAfterReceive(outcome)
            /\ exit' = IF outcome = "error" THEN Exited(1, "receive") ELSE exit
            /\ UNCHANGED <<messages, msg, next_handle, log>>
       \/ \E batch \in Batches(queue, next_handle, MaxNumberOfMessages) :
            /\ iter' = NewIter("batch")
            /\ pc' = ExampleAfterReceive("batch")
            /\ msg' = Head(batch)
            /\ messages' = Tail(batch)
            /\ next_handle' = next_handle + Len(batch)
            /\ log' = LogBatch(log, batch)
            /\ exit' = exit
    /\ UNCHANGED <<prog, env, queue, message_count, parent_cx, attached,
                   handler, flushed, pub_i, polls>>
    /\ UNCHANGED <<carrierVars, decodeVars, publisherVars>>

\* main.rs SqsConsumer::receive_messages: the body is decoded and shown.
ExampleHandleBody ==
    /\ prog = "main.rs"
    /\ pc = "body"
    /\ log' = [log EXCEPT ![msg.receipt_handle].shown = SqsConsumerBody(msg.body)]
    /\ iter' = [iter EXCEPT !.bodies = @ + 1]
    /\ pc' = "delete"
    /\ UNCHANGED <<prog, env, queue, messages, msg, message_count, parent_cx, attached,
                   next_handle, exit, handler, flushed, pub_i, polls>>
    /\ UNCHANGED <<carrierVars, decodeVars, publisherVars>>

\* The for loop of receive_messages takes the next message of the batch, if
\* there is one.
ExampleNextMessage ==
    IF messages = <<>>
    THEN msg' = NoMsg /\ messages' = messages
    ELSE msg' = Head(messages) /\ messages' = Tail(messages)

\* main.rs SqsConsumer::receive_messages: the delete call is issued with the
\* message's receipt handle, if it has one.
ExampleDeleteSend ==
    /\ prog = "main.rs"
    /\ pc = "delete"
    /\ LET h == DeleteHandle(msg) IN
       IF h # NoHandle
       THEN /\ log' = [log EXCEPT ![msg.receipt_handle].deletes = Append(@, h)]
            /\ iter' = [iter EXCEPT !.deletes = @ + 1]
            /\ pc' = "deleting"
            /\ UNCHANGED <<msg, messages>>
       ELSE /\ log' = [log EXCEPT ![msg.receipt_handle].done = TRUE]
            /\ iter' = iter
            /\ pc' = ExampleAfterDelete(TRUE, messages)
            /\ ExampleNextMessage
    /\ UNCHANGED <<prog, env, queue, message_count, parent_cx, attached, next_handle,
                   exit, handler, flushed, pub_i, polls>>
    /\ UNCHANGED <<carrierVars, decodeVars, publisherVars>>

\* main.rs SqsConsumer::receive_messages: the delete call has returned.
ExampleDeleteDone ==
    /\ prog = "main.rs"
    /\ pc = "deleting"
    /\ \E ok \in BOOLEAN :
        /\ queue' = IF ok THEN Remove(queue, msg.mid) ELSE queue
        /\ log' = [log EXCEPT ![msg.receipt_handle].acked = IF ok THEN "ok" ELSE "failed",
                              ![msg.receipt_handle].done = TRUE]
        /\ iter' = [iter EXCEPT !.failed = IF ok THEN @ ELSE @ + 1]
        /\ pc' = ExampleAfterDelete(ok, messages)
        /\ exit' = IF ok THEN exit ELSE Exited(1, "delete")
        /\ IF ok THEN ExampleNextMessage ELSE UNCHANGED <<msg, messages>>
    /\ UNCHANGED <<prog, env, message_count, parent_cx, attached, next_handle,
                   handler, flushed, pub_i, polls>>
    /\ UNCHANGED <<carrierVars, decodeVars, publisherVars>>

\* main.rs main: receive_messages has returned Ok(()); the sleep of a second
\* after it, and the end of main after the last poll.
ExamplePollSleep ==
    /\ prog = "main.rs"
    /\ pc = "sleep"
    /\ polls' = polls + 1
    /\ iter' = [iter EXCEPT !.sleeps = @ + 1]
    /\ IF polls + 1 = PollCount
       THEN pc' = "exited" /\ exit' = Exited(0, "completed")
       ELSE pc' = "receive" /\ exit' = exit
    /\ UNCHANGED <<prog, env, queue, messages, msg, message_count, parent_cx, attached,
                   next_handle, log, handler, flushed, pub_i>>
    /\ UNCHANGED <<carrierVars, decodeVars, publisherVars>>

InitExample == InitLoop("main.rs", Queues(MaxQueuedExample))

NextExample ==
    \/ ExampleStart
    \/ ExamplePublish
    \/ ExampleReceive
    \/ ExampleHandleBody
    \/ ExampleDeleteSend
    \/ ExampleDeleteDone
    \/ ExamplePollSleep

SpecExample == InitExample /\ [][NextExample]_vars

\* Either consuming program.
InitConsumers == Init \/ InitExample

NextConsumers == Next \/ NextExample

SpecConsumers == InitConsumers /\ [][NextConsumers]_vars

-----------------------------------------------------------------------------
(***************************************************************************)
(* src/publisher.rs: lines read from stdin are published to the topic,     *)
(* each with the trace context of its own sns.publish span.                *)
(***************************************************************************)

\* Publish calls issued, at most.
MaxPublishes == 3

\* The lines read_line can return: with their newline, or nothing at the end
\* of the input.
Lines == {"quit\n", "QUIT\n", "\n", "  \n", "hello\n", " again \n", ""}

\* str::trim
Trim(line) ==
    CASE line = "quit\n" -> "quit"
      [] line = "QUIT\n" -> "QUIT"
      [] line = "hello\n" -> "hello"
      [] line = " again \n" -> "again"
      [] OTHER -> ""

\* input.eq_ignore_ascii_case("quit")
EqIgnoreAsciiCaseQuit(text) == text \in {"quit", "QUIT"}

\* The traceparent of the n-th span the tracer starts.
TraceParent(n) == "00-aaaa-" \o ToString(n) \o "-01"

\* Context::current_with_span(tracer.start("sns.publish")): the context of
\* the n-th span; its span context is valid unless the tracer is a no-op.
SpanContext(valid, n) ==
    IF valid
    THEN [valid |-> TRUE, trace |-> TraceParent(n), state |-> "dd=s:1"]
    ELSE [valid |-> FALSE, trace |-> None, state |-> None]

\* `let mut attributes = HashMap::new()`, as a bug would have it: the map of
\* the publish before is used again.
ReusedHashMap(old) == old

\* `let mut attributes = HashMap::new()`
NewHashMap(old) == <<>>

\* propagator.inject_context(&cx, &mut SnsMessageAttributesInjector(&mut
\* attributes)): a valid span context is written under "traceparent" and
\* "tracestate" with the injector's set, an invalid one not at all.
PropagatorInject(context, map) ==
    IF context.valid
    THEN InjectorSet(InjectorSet(map, "traceparent", context.trace),
                     "tracestate", context.state)
    ELSE map

\* message_id after the publish call has returned, as a bug would have it:
\* it is incremented whether the publish succeeded or not.
NextMessageIdAlways(id, ok) == id + 1

\* message_id after the publish call has returned.
NextMessageId(id, ok) == IF ok THEN id + 1 ELSE id

\* publisher.rs main, up to the loop: the topic ARN is read from the
\* environment (missing: the error is returned from main).
PublisherStart ==
    /\ prog = "publisher.rs"
    /\ pc = "start"
    /\ IF EnvVar(env, "SNS_TOPIC_ARN")
       THEN /\ pc' = "prompt"
            /\ message_id' = 1
            /\ exit' = exit
       ELSE /\ pc' = "exited"
            /\ exit' = Exited(1, "config")
            /\ message_id' = message_id
    /\ UNCHANGED <<prog, env, queue, messages, msg, message_count, parent_cx, attached,
                   next_handle, log, iter, handler, flushed, pub_i, polls>>
    /\ UNCHANGED <<input, pub_cx, publog>>
    /\ UNCHANGED <<carrierVars, decodeVars>>

\* publisher.rs: the prompt, read_line (an I/O error is returned from main),
\* trim; "quit" leaves the loop, an empty line prompts again, any other line
\* becomes a message and the sns.publish span is started.
PublisherReadLine ==
    /\ prog = "publisher.rs"
    /\ pc = "prompt"
    /\ \/ /\ pc' = "exited"
          /\ exit' = Exited(1, "io")
          /\ UNCHANGED <<input, pub_cx>>
       \/ \E line \in Lines :
            /\ input' = Trim(line)
            /\ exit' = exit
            /\ IF EqIgnoreAsciiCaseQuit(input')
               THEN pc' = "shutdown" /\ pub_cx' = pub_cx
               ELSE IF input' = ""
               THEN pc' = "prompt" /\ pub_cx' = pub_cx
               ELSE /\ Len(publog) < MaxPublishes
                    /\ pc' = "inject"
                    /\ \E valid \in BOOLEAN :
                          pub_cx' = SpanContext(valid, Len(publog) + 1)
    /\ UNCHANGED <<prog, env, queue, messages, msg, message_count, parent_cx, attached,
                   next_handle, log, iter, handler, flushed, pub_i, polls>>
    /\ UNCHANGED <<message_id, publog>>
    /\ UNCHANGED <<carrierVars, decodeVars>>

\* publisher.rs: a new attribute map is made and the propagator injects the
\* span's context into it through the injector.
PublisherInject ==
    /\ prog = "publisher.rs"
    /\ pc = "inject"
    /\ attributes' = PropagatorInject(pub_cx, NewHashMap(attributes))
    /\ pc' = "send"
    /\ UNCHANGED <<prog, env, queue, messages, msg, message_count, parent_cx, attached,
                   next_handle, log, iter, exit, handler, flushed, pub_i, polls>>
    /\ UNCHANGED <<before, op, prevop, ret>>
    /\ UNCHANGED <<decodeVars, publisherVars>>

\* publisher.rs: the context is attached and client.publish()...send() is
\* issued with the attribute map.
PublisherSend ==
    /\ prog = "publisher.rs"
    /\ pc = "send"
    /\ attached' = Attach(attached, pub_cx)
    /\ publog' = Append(publog, [id |-> message_id, content |-> input, cx |-> pub_cx,
                                 attributes |-> attributes, result |-> None])
    /\ pc' = "publishing"
    /\ UNCHANGED <<prog, env, queue, messages, msg, message_count, parent_cx,
                   next_handle, log, iter, exit, handler, flushed, pub_i, polls>>
    /\ UNCHANGED <<message_id, input, pub_cx>>
    /\ UNCHANGED <<carrierVars, decodeVars>>

\* publisher.rs: the publish call has returned; on success message_id is
\* incremented, a failure is logged; the loop body ends (the guard is
\* dropped) and the prompt comes next.
PublisherDone ==
    /\ prog = "publisher.rs"
    /\ pc = "publishing"
    /\ \E ok \in BOOLEAN :
        /\ publog' = [publog EXCEPT ![Len(publog)].result = IF ok THEN "ok" ELSE "failed"]
        /\ message_id' = NextMessageId(message_id, ok)
    /\ attached' = DropGuard(attached)
    /\ pc' = "prompt"
    /\ UNCHANGED <<prog, env, queue, messages, msg, message_count, parent_cx,
                   next_handle, log, iter, exit, handler, flushed, pub_i, polls>>
    /\ UNCHANGED <<input, pub_cx>>
    /\ UNCHANGED <<carrierVars, decodeVars>>

\* publisher.rs, after the loop: the tracer provider is shut down (a failure
\* is returned from main) and main returns Ok.
PublisherShutdown ==
    /\ prog = "publisher.rs"
    /\ pc = "shutdown"
    /\ \E ok \in BOOLEAN :
        /\ flushed' = ok
        /\ exit' = IF ok THEN Exited(0, "quit") ELSE Exited(1, "shutdown")
    /\ pc' = "exited"
    /\ UNCHANGED <<prog, env, queue, messages, msg, message_count, parent_cx, attached,
                   next_handle, log, iter, handler, pub_i, polls>>
    /\ UNCHANGED <<carrierVars, decodeVars, publisherVars>>

InitPublisher ==
    /\ prog = "publisher.rs"
    /\ env \in {{"SQS_QUEUE_URL", "SNS_TOPIC_ARN"}, {"SQS_QUEUE_URL"}}
    /\ pc = "start"
    /\ queue = <<>>
    /\ messages = <<>>
    /\ msg = NoMsg
    /\ message_count = 0
    /\ parent_cx = RootCx
    /\ attached = <<>>
    /\ next_handle = 1
    /\ log = <<>>
    /\ iter = NewIter("not_yet")
    /\ exit = Running
    /\ handler = "unset"
    /\ flushed = FALSE
    /\ pub_i = 0
    /\ polls = 0
    /\ CarrierIdle
    /\ DecodeIdle
    /\ PublisherIdle

NextPublisher ==
    \/ PublisherStart
    \/ PublisherReadLine
    \/ PublisherInject
    \/ PublisherSend
    \/ PublisherDone
    \/ PublisherShutdown

SpecPublisher == InitPublisher /\ [][NextPublisher]_vars

-----------------------------------------------------------------------------
(***************************************************************************)
(* Claims about the consuming programs (Spec, SpecExample, SpecConsumers)  *)
(***************************************************************************)

\* C3: for every delivery, the delete calls issued while it is processed pass
\* that delivery's own receipt handle, there is never a second one, and when
\* its processing has ended exactly one was issued.
C3_OneDeletePerDelivery ==
    \A h \in DOMAIN log :
        /\ \A k \in DOMAIN log[h].deletes : log[h].deletes[k] = h
        /\ Len(log[h].deletes) <= 1
        /\ log[h].done => Len(log[h].deletes) = 1

\* C3 witness: consumer.rs has finished the second delivery of a run, with
\* one delete call that passed the handle of that delivery.
C3_Witness ==
    /\ prog = "consumer.rs"
    /\ 2 \in DOMAIN log
    /\ log[2].done
    /\ log[2].deletes = <<2>>
    /\ log[2].shown # Pending

\* C4: after a receive call of consumer.rs returned no batch or an empty one,
\* the loop is at the next receive call with no extraction, no span, no body
\* handling, no delete and no sleep in between.
C4_IdlePoll ==
    (prog = "consumer.rs" /\ iter.outcome \in {"no_batch", "empty"}) =>
        /\ pc \in {"receive", "exited"}
        /\ iter.extracts = 0
        /\ iter.spans = 0
        /\ iter.bodies = 0
        /\ iter.deletes = 0
        /\ iter.sleeps = 0

\* C4 witness: an empty batch came back after messages had been processed,
\* and the loop is at the next receive call.
C4_Witness ==
    /\ prog = "consumer.rs"
    /\ iter.outcome = "empty"
    /\ pc = "receive"
    /\ message_count > 0
    /\ DOMAIN queue # {}

\* C5: after a receive call of consumer.rs failed, no message is processed,
\* the loop is in the sleep, and it is back at the receive call only once the
\* sleep is over.
C5_ReceiveErrorBacksOff ==
    (prog = "consumer.rs" /\ iter.outcome = "error") =>
        /\ pc \in {"backoff", "receive", "exited"}
        /\ iter.extracts = 0
        /\ iter.spans = 0
        /\ iter.bodies = 0
        /\ iter.deletes = 0
        /\ pc = "backoff" => iter.sleeps = 0
        /\ pc = "receive" => iter.sleeps = 1

\* C5 witness: the sleep after a failed receive is over and the loop polls
\* again, with a message waiting in the queue.
C5_Witness ==
    /\ prog = "consumer.rs"
    /\ iter.outcome = "error"
    /\ pc = "receive"
    /\ iter.sleeps = 1
    /\ DOMAIN queue # {}

\* C6: neither a receive failure nor a delete failure nor a decode failure
\* ends the consuming program, and the program does not end with messages of
\* a batch left unprocessed unless it was cancelled.
C6_NothingFatal ==
    /\ exit.cause \notin {"receive", "delete", "decode"}
    /\ (pc = "exited" /\ messages # <<>>) => exit.cause = "ctrlc"

\* C7 (as claimed): after a delete call failed, the loop is back at the
\* receive call only after a sleep.
C7_DeleteFailureBacksOff ==
    (iter.failed > 0 /\ pc = "receive") => iter.sleeps >= 1

\* C7 (amended): in consumer.rs a failed delete call is followed by no sleep:
\* the loop goes on with the next message of the batch or the next receive
\* call; the sleep is entered after a failed receive call only.
C7_DeleteFailureNoPause ==
    prog = "consumer.rs" =>
        /\ iter.failed > 0 =>
              /\ iter.sleeps = 0
              /\ pc \in {"extract", "span", "body", "delete", "deleting", "receive", "exited"}
        /\ pc = "backoff" => (iter.outcome = "error" /\ iter.failed = 0)

\* C7 witness: the delete of the last message of a batch failed and the loop
\* is at the next receive call, without a sleep.
C7_Witness ==
    /\ prog = "consumer.rs"
    /\ iter.failed > 0
    /\ pc = "receive"
    /\ iter.sleeps = 0

\* C10: in consumer.rs at most one context is attached; it is the span of the
\* message being processed from body handling to the end of its delete call,
\* and nothing is attached at the receive call, in the sleep, or while the
\* next message's context is extracted and its span started.
C10_SpanScope ==
    prog = "consumer.rs" =>
        /\ Len(attached) <= 1
        /\ pc \in {"body", "delete", "deleting"} =>
              attached = <<[span |-> msg.receipt_handle, parent |-> parent_cx]>>
        /\ pc \in {"start", "receive", "backoff", "extract", "span"} => attached = <<>>

\* C10 witness: the second message of a batch is at its extraction, after the
\* first one's span was started and its delete returned.
C10_Witness ==
    /\ prog = "consumer.rs"
    /\ pc = "extract"
    /\ msg.receipt_handle = 2
    /\ 1 \in DOMAIN log
    /\ log[1].span
    /\ log[1].done
    /\ iter.extracts = 1

\* C17: without SQS_QUEUE_URL in the environment the program ends at startup
\* with an error: it never gets past the start, no receive call and no
\* delete call is ever made (and main.rs publishes nothing).
C17_MissingQueueUrlStopsAtStartup ==
    "SQS_QUEUE_URL" \notin env =>
        /\ pc \in {"start", "exited"}
        /\ pc = "exited" => exit = Exited(1, "config")
        /\ iter.outcome = "not_yet"
        /\ DOMAIN log = {}
        /\ handler = "unset"
        /\ pub_i = 0

\* C17 witness: consumer.rs has ended at startup for want of SQS_QUEUE_URL
\* while messages were waiting in the queue.
C17_Witness ==
    /\ prog = "consumer.rs"
    /\ "SQS_QUEUE_URL" \notin env
    /\ pc = "exited"
    /\ exit = Exited(1, "config")
    /\ DOMAIN queue # {}

\* The attributes of a received message carry a valid trace context: there is
\* a "traceparent" entry with a well-formed string value.
CarriesContext(message_attributes) ==
    LET map == UnwrapOrEmpty(message_attributes) IN
    /\ "traceparent" \in DOMAIN map
    /\ map["traceparent"].string_value \in WellFormed

\* C18: a delivery without attributes, or whose attributes carry no valid
\* trace context, gets the root context as parent at extraction and ends the
\* program no more than another one; it then gets its span, its body is shown
\* and it is deleted, and between two iterations of the loop every delivery
\* so far has gone through all of that.
C18_NoContextIsNoError ==
    /\ pc = "exited" => exit.cause \in {"config", "ctrlc"}
    /\ \A h \in DOMAIN log :
          ~CarriesContext(log[h].message_attributes) =>
              /\ log[h].extracted => log[h].parent = RootCx.trace
              /\ (pc \in {"span", "body", "delete", "deleting"}
                      /\ msg.receipt_handle = h) =>
                    (log[h].extracted /\ parent_cx = RootCx)
              /\ pc \in {"receive", "backoff"} => log[h].done
              /\ log[h].done =>
                    /\ log[h].extracted
                    /\ log[h].span
                    /\ log[h].shown # Pending
                    /\ log[h].deletes = <<h>>
                    /\ log[h].acked \in {"ok", "failed"}

\* C18 witness: a delivery without attributes and a delivery with a
\* malformed traceparent have both been shown and deleted.
C18_Witness ==
    \E h \in DOMAIN log, g \in DOMAIN log :
        /\ log[h].message_attributes = NoAttributes
        /\ log[h].done /\ log[h].acked = "ok" /\ log[h].parent = RootCx.trace
        /\ log[g].message_attributes # NoAttributes
        /\ ~CarriesContext(log[g].message_attributes)
        /\ log[g].done /\ log[g].acked = "ok" /\ log[g].parent = RootCx.trace

\* A step of the loop body has been taken for delivery h.
Started(h) ==
    \/ log[h].extracted
    \/ log[h].span
    \/ log[h].shown # Pending
    \/ log[h].deletes # <<>>

\* C19: the deliveries of a batch are processed one at a time in delivery
\* order (receipt handles are handed out in that order) and at most once:
\* for each, the delete comes after the body was handled, in consumer.rs the
\* body after the span and the span after the extraction; no step is taken
\* for a delivery before the delete call of every earlier delivery has
\* returned; and between two receive calls every delivery so far is done.
C19_OneAtATimeInOrder ==
    /\ \A h \in DOMAIN log :
          /\ log[h].deletes # <<>> => log[h].shown # Pending
          /\ Len(log[h].deletes) <= 1
          /\ prog = "consumer.rs" =>
                /\ log[h].shown # Pending => log[h].span
                /\ log[h].span => log[h].extracted
          /\ log[h].acked # None => log[h].deletes = <<h>>
          /\ log[h].done => log[h].acked \in {"ok", "failed"}
          /\ pc \in {"receive", "backoff", "sleep"} => log[h].done
          /\ \A g \in DOMAIN log :
                (g < h /\ Started(h)) => log[g].acked \in {"ok", "failed"}
    /\ (prog = "consumer.rs" /\ pc \in {"receive", "backoff"}) =>
          iter.extracts = iter.deletes /\ iter.spans = iter.deletes
              /\ iter.bodies = iter.deletes

\* C19 witness: a batch of two was processed, the delete of the first
\* delivery failed, and the second delivery was shown and deleted after it.
C19_Witness ==
    \E g \in DOMAIN log, h \in DOMAIN log :
        /\ h = g + 1
        /\ iter.outcome = "batch"
        /\ iter.deletes = 2
        /\ log[g].acked = "failed"
        /\ log[h].done
        /\ log[h].acked = "ok"
        /\ prog = "consumer.rs"

\* C11: when consumer.rs has exited on Ctrl+C, the tracer provider was shut
\* down (flushed) before, the status is 0, and no delete request that was
\* issued has been abandoned by the exit.
C11_OrderlyShutdown ==
    (pc = "exited" /\ exit.cause = "ctrlc") =>
        /\ flushed
        /\ exit.status = 0
        /\ \A h \in DOMAIN log : log[h].acked # "abandoned"

\* C12: a message leaves the queue only in the step in which the delete
\* issued after its body was handled takes effect; a failed delete leaves the
\* queue as it is; and a delivery whose delete failed is followed by another
\* delivery of the same message that is processed to its end (unless the
\* program was cancelled or the queue hands out no more deliveries).
C12_RedeliveredAfterFailedDelete ==
    /\ [][/\ \A m \in DOMAIN queue :
               m \notin DOMAIN queue' =>
                   /\ pc = "deleting"
                   /\ msg.mid = m
                   /\ log[msg.receipt_handle].shown # Pending
                   /\ log[msg.receipt_handle].deletes = <<msg.receipt_handle>>
                   /\ log'[msg.receipt_handle].acked \in {"ok", "abandoned"}
          /\ (pc = "deleting" /\ log'[msg.receipt_handle].acked = "failed") =>
               queue' = queue]_vars
    /\ \A h \in 1..MaxDeliveries :
          (h \in DOMAIN log /\ log[h].acked = "failed")
              ~> \/ pc = "exited"
                 \/ \E again \in DOMAIN log :
                       again > h /\ log[again].mid = log[h].mid /\ log[again].done
                 \/ /\ next_handle > MaxDeliveries
                    /\ \A again \in DOMAIN log :
                          again > h => log[again].mid # log[h].mid

\* C12 witness: the delete of a delivery failed, the message was delivered
\* again and that delivery was shown and deleted.
C12_Witness ==
    \E h \in DOMAIN log, again \in DOMAIN log :
        /\ log[h].acked = "failed"
        /\ again > h
        /\ log[again].mid = log[h].mid
        /\ log[again].shown # Pending
        /\ log[again].acked = "ok"
        /\ log[again].mid \notin DOMAIN queue

-----------------------------------------------------------------------------
(***************************************************************************)
(* Claims about body decoding (SpecDecode)                                 *)
(***************************************************************************)

\* A notification envelope: a JSON object with a string "Message" field.
IsEnvelope(text) ==
    /\ text.kind = "doc"
    /\ text.doc.t = "obj"
    /\ "Message" \in DOMAIN text.doc.fields
    /\ text.doc.fields["Message"].t = "str"

\* What unwrapping an envelope is to give: the inner payload if the Message
\* string parses as one, the Message string raw if not.
Unwrapped(text) ==
    LET inner == text.doc.fields["Message"].s IN
    IF FromStrMessage(inner).ok
    THEN Payload(FromStrMessage(inner).value)
    ELSE Raw(inner)

\* C8 (as claimed): every consumer decodes an envelope body to the inner
\* payload, or to the Message string raw when that is not a payload.
C8_EveryConsumerUnwraps ==
    (dresult # Pending /\ IsEnvelope(dbody)) => dresult = Unwrapped(dbody)

\* C8 (amended): SqsConsumer::receive_messages (main.rs) decodes an envelope
\* body to the inner payload, or to the Message string raw when that is not a
\* payload; consumer.rs does not unwrap: it shows the whole body, as a payload
\* if the body itself parses as one and raw otherwise.
C8_SqsConsumerUnwraps ==
    (dresult # Pending /\ IsEnvelope(dbody)) =>
        /\ dwho = "main.rs" => dresult = Unwrapped(dbody)
        /\ dwho = "consumer.rs" =>
              /\ dresult.tag \in {"payload", "raw"}
              /\ dresult.tag = "raw" => dresult.text = dbody
              /\ dresult.tag = "payload" =>
                    /\ {"id", "content", "timestamp"} \subseteq DOMAIN dbody.doc.fields
                    /\ dresult.message.id = AsU32(dbody.doc.fields["id"])
                    /\ dresult.message.content = dbody.doc.fields["content"].s
                    /\ dresult.message.timestamp = dbody.doc.fields["timestamp"].s

\* C8 witness: main.rs has unwrapped an envelope to its inner payload.
C8_Witness ==
    /\ dwho = "main.rs"
    /\ IsEnvelope(dbody)
    /\ dresult = Payload(Message(U32(0, 1), Hello, Timestamp))

\* C9: a body that is not an envelope always yields a result: the payload if
\* the body is a valid payload JSON, the whole body raw otherwise.
C9_NonEnvelopeDecodes ==
    (dresult # Pending /\ ~IsEnvelope(dbody)) =>
        /\ dresult # Nothing
        /\ FromStrMessage(dbody).ok => dresult = Payload(FromStrMessage(dbody).value)
        /\ ~FromStrMessage(dbody).ok => dresult = Raw(dbody)

-----------------------------------------------------------------------------
(***************************************************************************)
(* Claims about the carriers (SpecCarrier)                                 *)
(***************************************************************************)

\* C1: after set(k, v) on any attribute map, the entry under k is string-typed
\* (data type "String", string value v) and get(k) over the same map returns
\* exactly v.
C1_RoundTrip ==
    op.name = "set" =>
        /\ op.key \in DOMAIN attributes
        /\ attributes[op.key].data_type = "String"
        /\ attributes[op.key].string_value = op.value
        /\ ExtractorGet(attributes, op.key) = op.value

\* C1 witness: a set has replaced an entry that was not a string attribute.
C1_Witness ==
    /\ op.name = "set"
    /\ op.key \in DOMAIN before
    /\ before[op.key].data_type = "Binary"
    /\ ExtractorGet(attributes, op.key) = op.value

\* C2: set(k, v1) followed by set(k, v2) leaves get(k) = v2 and the map as
\* large as it was after the first set: one entry for k, holding the second
\* value.
C2_Overwrite ==
    (prevop.name = "set" /\ op.name = "set" /\ prevop.key = op.key) =>
        /\ ExtractorGet(attributes, op.key) = op.value
        /\ Cardinality(DOMAIN attributes) = Cardinality(DOMAIN before)
        /\ Cardinality({j \in DOMAIN attributes : j = op.key}) = 1

\* C2 witness: two sets under one name with different values.
C2_Witness ==
    /\ prevop.name = "set"
    /\ op.name = "set"
    /\ prevop.key = op.key
    /\ prevop.value # op.value
    /\ ExtractorGet(attributes, op.key) = op.value

\* C14: get(k) for a name that is not in the attribute map returns absent
\* (no error value exists: the result is an Option) and leaves the map as it
\* was.
C14_MissingKeyAbsent ==
    (op.name = "get" /\ op.key \notin DOMAIN before) =>
        /\ ret = None
        /\ attributes = before

\* C14 witness: get was called for a missing name on a map that has another
\* entry.
C14_Witness ==
    /\ op.name = "get"
    /\ op.key \notin DOMAIN before
    /\ DOMAIN before # {}
    /\ ret = None

\* C15: keys() returns every name of the attribute map once and no other
\* name; which names it returns depends on the content of the map only.
C15_KeysComplete ==
    op.name = "keys" =>
        /\ {ret[n] : n \in DOMAIN ret} = DOMAIN attributes
        /\ Len(ret) = Cardinality(DOMAIN attributes)
        /\ attributes = before

\* C15 witness: keys() has listed two names, the second one set last, one of
\* them an entry without a string value.
C15_Witness ==
    /\ op.name = "keys"
    /\ prevop.name = "set"
    /\ Len(ret) = 2
    /\ ret[1] = prevop.key
    /\ \E k \in DOMAIN attributes : attributes[k].string_value = None

\* C16: get(k) returns absent when the entry under k is not string-typed,
\* and keys() lists every name whatever its type.
C16_NonStringAbsent ==
    /\ (op.name = "get" /\ op.key \in DOMAIN before
            /\ before[op.key].data_type # "String") => ret = None
    /\ op.name = "keys" => {ret[n] : n \in DOMAIN ret} = DOMAIN attributes

\* C21: set(k, v) leaves every entry under another name as it was, present
\* or not and with its value, and the map has one entry more if k was not
\* in it and as many as before if it was.
C21_SetFrame ==
    op.name = "set" =>
        /\ \A j \in AttrNames \ {op.key} :
              /\ j \in DOMAIN attributes <=> j \in DOMAIN before
              /\ j \in DOMAIN before => attributes[j] = before[j]
        /\ DOMAIN attributes \subseteq AttrNames
        /\ Cardinality(DOMAIN attributes) =
              Cardinality(DOMAIN before) + (IF op.key \in DOMAIN before THEN 0 ELSE 1)

\* C21 witness: set has added an entry to a map that held an entry without
\* a string value under the other name, and that entry is still there.
C21_Witness ==
    /\ op.name = "set"
    /\ op.key \notin DOMAIN before
    /\ \E j \in DOMAIN before :
          /\ before[j].data_type = "Binary"
          /\ j \in DOMAIN attributes
          /\ attributes[j] = before[j]
    /\ Cardinality(DOMAIN attributes) = 2

-----------------------------------------------------------------------------
(***************************************************************************)
(* Claims about the publisher (SpecPublisher)                              *)
(***************************************************************************)

\* The publish calls before the n-th that succeeded.
Published(n) == {k \in 1..(n - 1) : publog[k].result = "ok"}

\* C22: message_id is 1 when the loop starts and is always one more than
\* the number of publish calls that succeeded; every publish call carries
\* the id one more than the number of successes before it, so the ids of
\* the successes are 1, 2, 3, ...; an empty line leads to no publish call.
C22_MessageIdCountsSuccesses ==
    /\ (pc = "start" \/ (pc = "exited" /\ exit.cause = "config")) =>
          (message_id = 0 /\ publog = <<>>)
    /\ ~(pc = "start" \/ (pc = "exited" /\ exit.cause = "config")) =>
          message_id = 1 + Cardinality(Published(Len(publog) + 1))
    /\ \A n \in DOMAIN publog :
          /\ publog[n].id = 1 + Cardinality(Published(n))
          /\ publog[n].content \notin {"", None}
    /\ input = "" => pc \in {"prompt", "exited"}

\* C22 witness: a publish succeeded with id 1, the next one failed with id 2
\* and the one after it succeeded with id 2 again; then an empty line was
\* read.
C22_Witness ==
    /\ Len(publog) = 3
    /\ publog[1].result = "ok" /\ publog[1].id = 1
    /\ publog[2].result = "failed" /\ publog[2].id = 2
    /\ publog[3].result = "ok" /\ publog[3].id = 2
    /\ message_id = 3
    /\ input = ""
    /\ pc = "prompt"

\* C13: a publish call that failed is followed by the backoff and then by
\* another publish call for the same message, and the program does not end
\* because of the failure.
C13_PublishFailureRetried ==
    /\ pc = "exited" => exit.cause \in {"config", "io", "quit", "shutdown"}
    /\ \A n \in DOMAIN publog :
          publog[n].result = "failed" =>
              \/ pc = "backoff"
              \/ \E retry \in DOMAIN publog :
                    /\ retry > n
                    /\ publog[retry].id = publog[n].id
                    /\ publog[retry].content = publog[n].content

\* C20: the attribute map of every publish call holds the entries injected
\* for the context of that message's own span and nothing else (both
\* entries for a valid span context, none for an invalid one), whatever the
\* publish calls before it carried and however they ended; and the map is
\* complete when the call is about to be issued.
C20_FreshAttributesPerPublish ==
    /\ \A n \in DOMAIN publog :
          LET p == publog[n] IN
          /\ DOMAIN p.attributes =
                IF p.cx.valid THEN {"traceparent", "tracestate"} ELSE {}
          /\ p.cx = SpanContext(p.cx.valid, n)
          /\ p.cx.valid =>
                /\ p.attributes["traceparent"] = StringAttr(TraceParent(n))
                /\ p.attributes["tracestate"] = StringAttr(p.cx.state)
    /\ pc \in {"send", "publishing"} =>
          attributes = PropagatorInject(pub_cx, <<>>)
    /\ pc = "publishing" => publog[Len(publog)].attributes = attributes

\* C20 witness: a publish call with a valid span context failed, and a later
\* publish call for a span without a valid context went out with an empty
\* attribute map.
C20_Witness ==
    \E n \in DOMAIN publog, later \in DOMAIN publog :
        /\ n < later
        /\ publog[n].result = "failed"
        /\ publog[n].cx.valid
        /\ DOMAIN publog[n].attributes = {"traceparent", "tracestate"}
        /\ ~publog[later].cx.valid
        /\ publog[later].attributes = <<>>

====
